---- MODULE Spec2Model ----
(***************************************************************************)
(* Movie-Search: the paginated search session of the search screen         *)
(* (src/app/(tabs)/index.tsx) and the favorites read-modify-write cycle of *)
(* the detail and favorites screens (src/app/movie/[id].tsx,               *)
(* src/app/(tabs)/favorites.tsx).                                          *)
(*                                                                         *)
(* Every async handler is cut at its awaits: the synchronous part up to    *)
(* the first await is one action, and each continuation is one action.     *)
(* Handlers read the state of the latest render, except where a closure    *)
(* is captured across an await (toggleFavorite's isFavorite and movie).    *)
(* An AsyncStorage call takes effect in the step that runs its             *)
(* continuation; pending calls complete in any order.                      *)
(***************************************************************************)
EXTENDS Integers, Sequences, FiniteSets, TLC

(* ------------------------------ bounds -------------------------------- *)
\* highest page number loadMore may ask for
MaxPage == 4
\* total number of search requests sent in one run
MaxRequests == 3
\* search requests outstanding at the same time
MaxInFlight == 2

(* --------------------------- program constants ------------------------ *)
\* the catalog's page size, the literal 10 of setHasMore
PageSize == 10

(* ------------------------------ inputs -------------------------------- *)
\* texts of the search box, as sequences of characters
Queries == { <<>>, <<" ">>, <<"a">>, <<"b">> }
\* number of entries of data.Search in a 'True' response
ResultCounts == {1, 5}
\* data.totalResults of a 'True' response
Totals == {10, 23}

VARIABLES
    \* search screen, useState of index.tsx
    query, movies, page, loading, error, hasMore,
    \* fetches of searchMovies awaiting their response, in order of issue
    inflight,
    \* history: number of requests sent, text of the latest submit, number of
    \* requests sent before it, length of the list after the latest successful
    \* loadMore of the session, last event
    issued, session, sessStart, sessLen, last,
    \* AsyncStorage: the value stored under the key 'favorites'
    store,
    \* navigation: the tab shown, and whether a detail screen lies over it
    tab, detailOpen,
    \* detail screen, useState of movie/[id].tsx, its route parameter and its
    \* pending fetchMovie and checkIfFavorite calls
    routeId, movie, detailLoading, isFavorite, fetchPending, checkPending,
    \* toggleFavorite calls between their tap and their last continuation
    toggles,
    \* favorites screen, useState of favorites.tsx, whether it is mounted and
    \* whether its loadFavorites call is pending
    favMounted, favorites, favLoading, loadPending,
    \* history: the latest two toggles that ran one after the other or
    \* overlapped, the number of taps on the heart, and how the toggleFavorite
    \* call that finished last came to its end
    pair, taps, ended

searchVars == <<query, movies, page, loading, error, hasMore,
                inflight, issued, session, sessStart, sessLen, last>>

favVars == <<store, tab, detailOpen, routeId, movie, detailLoading, isFavorite,
             fetchPending, checkPending, toggles, favMounted, favorites,
             favLoading, loadPending, pair, taps, ended>>

vars == <<searchVars, favVars>>

(* ------------------------- search screen ------------------------------ *)
NoError == "null"
FetchFailed == "Failed to fetch movies. Please try again."
UpstreamError == "Movie not found!"

RECURSIVE TrimStart(_)
TrimStart(s) ==
    IF s # <<>> /\ Head(s) = " " THEN TrimStart(Tail(s)) ELSE s

RECURSIVE TrimEnd(_)
TrimEnd(s) ==
    IF s # <<>> /\ s[Len(s)] = " " THEN TrimEnd(SubSeq(s, 1, Len(s) - 1)) ELSE s

\* String.prototype.trim
Trim(s) == TrimEnd(TrimStart(s))

\* variant: the test without trim()
IsBlank_NoTrim(searchQuery) == searchQuery = <<>>

\* !searchQuery.trim()
IsBlank(searchQuery) == Trim(searchQuery) = <<>>

\* data.Search of a 'True' response to (q, p) with n entries
SearchResults(q, p, n) == [i \in 1..n |-> [q |-> q, p |-> p, i |-> i]]

\* variant: >= in place of >
HasMoreAfter_Inclusive(totalResults, pageNum) == totalResults >= pageNum * PageSize

\* data.totalResults > pageNum * 10 (the string totalResults is coerced to a number)
HasMoreAfter(totalResults, pageNum) == totalResults > pageNum * PageSize

Event(op, p, n, t) == [op |-> op, p |-> p, n |-> n, t |-> t]

\* a fetch of searchMovies: its query text and page, the handler that sent
\* it and its number among the requests sent
Request(q, p, by) == [q |-> q, p |-> p, by |-> by, id |-> issued + 1]

RemoveAt(s, i) == SubSeq(s, 1, i - 1) \o SubSeq(s, i + 1, Len(s))

\* the synchronous part of searchMovies(searchQuery, pageNum), entered with
\* the list `shown` already set by the caller
SearchMovies(searchQuery, pageNum, shown, by) ==
    IF IsBlank(searchQuery)
    THEN /\ movies' = <<>>
         /\ error' = NoError
         /\ UNCHANGED <<loading, inflight, issued>>
    ELSE /\ issued < MaxRequests
         /\ Len(inflight) < MaxInFlight
         /\ movies' = shown
         /\ loading' = TRUE
         /\ error' = NoError
         /\ inflight' = Append(inflight, Request(searchQuery, pageNum, by))
         /\ issued' = issued + 1

\* onChangeText={setQuery}
SetQuery(text) ==
    /\ text # query
    /\ query' = text
    /\ last' = Event("setQuery", 0, 0, 0)
    /\ UNCHANGED <<movies, page, loading, error, hasMore, inflight, issued,
                   session, sessStart, sessLen>>
    /\ UNCHANGED favVars

HandleSearch ==
    /\ page' = 1
    /\ SearchMovies(query, 1, <<>>, "submit")
    /\ session' = query
    /\ sessStart' = issued
    /\ sessLen' = 0
    /\ last' = Event("submit", 1, 0, 0)
    /\ UNCHANGED <<query, hasMore>>
    /\ UNCHANGED favVars

LoadMore ==
    IF ~loading /\ hasMore
    THEN /\ page < MaxPage
         /\ page' = page + 1
         /\ SearchMovies(query, page + 1, movies, "loadMore")
         /\ last' = Event("loadMore", page + 1, 0, 0)
         /\ UNCHANGED <<query, hasMore, session, sessStart, sessLen>>
         /\ UNCHANGED favVars
    ELSE UNCHANGED vars

\* a request sent by loadMore since the latest submit
IsSessionLoadMore(r) == r.by = "loadMore" /\ r.id > sessStart

\* the continuation of searchMovies after `await fetch` and `await
\* response.json()`, Response 'True' with n results and totalResults t
DeliverOk(i, n, t) ==
    LET r == inflight[i] IN
    /\ movies' = IF r.p = 1 THEN SearchResults(r.q, r.p, n)
                            ELSE movies \o SearchResults(r.q, r.p, n)
    /\ hasMore' = HasMoreAfter(t, r.p)
    /\ loading' = FALSE
    /\ inflight' = RemoveAt(inflight, i)
    /\ sessLen' = IF IsSessionLoadMore(r) THEN Len(movies') ELSE sessLen
    /\ last' = Event("ok", r.p, n, t)
    /\ UNCHANGED <<query, page, error, issued, session, sessStart>>
    /\ UNCHANGED favVars

\* variant of DeliverNone: the list is cleared whatever the page
DeliverNone_AlwaysClears(i, withError) ==
    LET r == inflight[i] IN
    /\ movies' = <<>>
    /\ hasMore' = FALSE
    /\ error' = IF withError THEN UpstreamError ELSE error
    /\ loading' = FALSE
    /\ inflight' = RemoveAt(inflight, i)
    /\ last' = Event("none", r.p, 0, 0)
    /\ UNCHANGED <<query, page, issued, session, sessStart, sessLen>>
    /\ UNCHANGED favVars

\* the same continuation, Response 'False', with or without data.Error
DeliverNone(i, withError) ==
    LET r == inflight[i] IN
    /\ movies' = IF r.p = 1 THEN <<>> ELSE movies
    /\ hasMore' = FALSE
    /\ error' = IF withError THEN UpstreamError ELSE error
    /\ loading' = FALSE
    /\ inflight' = RemoveAt(inflight, i)
    /\ last' = Event("none", r.p, 0, 0)
    /\ UNCHANGED <<query, page, issued, session, sessStart, sessLen>>
    /\ UNCHANGED favVars

\* variant of DeliverFail: a failed fetch handled as a response without
\* results
DeliverFail_AsNoResults(i) ==
    LET r == inflight[i] IN
    /\ error' = FetchFailed
    /\ movies' = IF r.p = 1 THEN <<>> ELSE movies
    /\ hasMore' = FALSE
    /\ loading' = FALSE
    /\ inflight' = RemoveAt(inflight, i)
    /\ last' = Event("fail", r.p, 0, 0)
    /\ UNCHANGED <<query, page, issued, session, sessStart, sessLen>>
    /\ UNCHANGED favVars

\* fetch throws or response.ok is false: the catch block
DeliverFail(i) ==
    LET r == inflight[i] IN
    /\ error' = FetchFailed
    /\ loading' = FALSE
    /\ inflight' = RemoveAt(inflight, i)
    /\ last' = Event("fail", r.p, 0, 0)
    /\ UNCHANGED <<query, movies, page, hasMore, issued, session, sessStart,
                   sessLen>>
    /\ UNCHANGED favVars

\* ListEmptyComponent of the FlatList: rendered when the list has no items,
\* `!loading && !error && query` chooses the "No movies found" text
EmptyMessageShown ==
    /\ movies = <<>>
    /\ ~loading
    /\ error = NoError
    /\ query # <<>>

InitSearch ==
    /\ query = <<>>
    /\ movies = <<>>
    /\ page = 1
    /\ loading = FALSE
    /\ error = NoError
    /\ hasMore = TRUE
    /\ inflight = <<>>
    /\ issued = 0
    /\ session = <<>>
    /\ sessStart = 0
    /\ sessLen = 0
    /\ last = Event("init", 0, 0, 0)

(* ---------------------- favorites: store and screens ------------------ *)
\* taps on the heart in one run
MaxTaps == 3

\* imdbID values of the catalog
Ids == {"tt1", "tt2"}
\* useState<MovieDetails | null>(null)
NullMovie == "null"
\* the imdbID of an object that has no such field (a 'False' detail response)
Undefined == "undefined"
NoCheck == "none"

\* values under the key 'favorites': nothing (getItem gives null), a string
\* JSON.parse rejects, or the JSON text of a list of entries. An entry is
\* modelled by its imdbID; an entry written without one reads back without one.
NothingStored == [kind |-> "none", list |-> <<>>]
Malformed == [kind |-> "bad", list |-> <<>>]
\* JSON.stringify(favorites)
Stringify(list) == [kind |-> "json", list |-> list]
\* JSON.parse(storedFavorites) throws
ParseThrows(s) == s.kind = "bad"
\* JSON.parse(storedFavorites)
Parse(s) == s.list

RECURSIVE Without(_, _)
\* favorites.filter((fav) => fav.imdbID !== id)
Without(list, id) ==
    IF list = <<>> THEN <<>>
    ELSE IF Head(list) = id THEN Without(Tail(list), id)
    ELSE <<Head(list)>> \o Without(Tail(list), id)

\* favorites.some((fav) => fav.imdbID === movieId)
Some(list, id) == \E k \in 1..Len(list) : list[k] = id

\* variant: unshift in place of push
ApplyToggle_Prepend(list, isFav, id) ==
    IF isFav THEN Without(list, id) ELSE <<id>> \o list

\* the branch of toggleFavorite on the captured isFavorite: filter or push
ApplyToggle(list, isFav, id) ==
    IF isFav THEN Without(list, id) ELSE Append(list, id)

\* a toggleFavorite call: the movie and isFavorite of its closure, where it
\* stands, the list it is about to write, and whether its screen is mounted
Toggle(m, fav) ==
    [m |-> m, fav |-> fav, pc |-> "read", favorites |-> <<>>, live |-> TRUE]

NoPair == [stage |-> "idle", m |-> NullMovie, L |-> <<>>, f1 |-> FALSE, f2 |-> FALSE]

\* the persisted favorites list, as the store's contract reads it
ListOf(s) == IF s.kind = "json" THEN s.list ELSE <<>>

\* the tab bar: the favorites tab is mounted when first shown and stays
\* mounted; useEffect(() => { loadFavorites() }, [loadFavorites]) runs on mount
OpenFavoritesTab ==
    /\ ~detailOpen
    /\ tab = "search"
    /\ tab' = "favorites"
    /\ favMounted' = TRUE
    /\ loadPending' = (loadPending \/ ~favMounted)
    /\ UNCHANGED <<store, detailOpen, routeId, movie, detailLoading, isFavorite,
                   fetchPending, checkPending, toggles, favorites, favLoading, pair, taps, ended>>
    /\ UNCHANGED searchVars

OpenSearchTab ==
    /\ ~detailOpen
    /\ tab = "favorites"
    /\ tab' = "search"
    /\ UNCHANGED <<store, detailOpen, routeId, movie, detailLoading, isFavorite,
                   fetchPending, checkPending, toggles, favMounted, favorites,
                   favLoading, loadPending, pair, taps, ended>>
    /\ UNCHANGED searchVars

\* loadFavorites after `await AsyncStorage.getItem`
LoadFavoritesDone ==
    /\ loadPending
    /\ favorites' = IF store.kind = "json" THEN Parse(store) ELSE favorites
    /\ favLoading' = FALSE
    /\ loadPending' = FALSE
    /\ UNCHANGED <<store, tab, detailOpen, routeId, movie, detailLoading,
                   isFavorite, fetchPending, checkPending, toggles, favMounted, pair, taps, ended>>
    /\ UNCHANGED searchVars

\* the links a tab offers: any catalog movie from a search result, a shown
\* favorite from the favorites list
Linked(id) ==
    \/ tab = "search" /\ id \in Ids
    \/ tab = "favorites" /\ ~favLoading /\ Some(favorites, id)

\* <Link href={`/movie/${item.imdbID}`}>: a new MovieScreen is mounted and its
\* effect starts fetchMovie
OpenDetail(id) ==
    /\ ~detailOpen
    /\ Linked(id)
    /\ detailOpen' = TRUE
    /\ routeId' = id
    /\ movie' = NullMovie
    /\ detailLoading' = TRUE
    /\ isFavorite' = FALSE
    /\ fetchPending' = TRUE
    /\ checkPending' = NoCheck
    /\ UNCHANGED <<store, tab, toggles, favMounted, favorites, favLoading,
                   loadPending, pair, taps, ended>>
    /\ UNCHANGED searchVars

\* fetchMovie after its awaits, the service answered with the movie
FetchMovieOk ==
    /\ fetchPending
    /\ routeId \in Ids
    /\ movie' = routeId
    /\ checkPending' = routeId
    /\ detailLoading' = FALSE
    /\ fetchPending' = FALSE
    /\ UNCHANGED <<store, tab, detailOpen, routeId, isFavorite, toggles,
                   favMounted, favorites, favLoading, loadPending, pair, taps, ended>>
    /\ UNCHANGED searchVars

\* fetchMovie after its awaits, the service answered {Response: 'False'}:
\* setMovie(data) stores an object without imdbID
FetchMovieNotFound ==
    /\ fetchPending
    /\ movie' = Undefined
    /\ checkPending' = Undefined
    /\ detailLoading' = FALSE
    /\ fetchPending' = FALSE
    /\ UNCHANGED <<store, tab, detailOpen, routeId, isFavorite, toggles,
                   favMounted, favorites, favLoading, loadPending, pair, taps, ended>>
    /\ UNCHANGED searchVars

\* fetchMovie, fetch or response.json() threw
FetchMovieFail ==
    /\ fetchPending
    /\ detailLoading' = FALSE
    /\ fetchPending' = FALSE
    /\ UNCHANGED <<store, tab, detailOpen, routeId, movie, isFavorite,
                   checkPending, toggles, favMounted, favorites, favLoading,
                   loadPending, pair, taps, ended>>
    /\ UNCHANGED searchVars

\* checkIfFavorite(movieId) after `await AsyncStorage.getItem`
CheckIfFavoriteDone ==
    /\ checkPending # NoCheck
    /\ isFavorite' = IF store.kind = "json" THEN Some(Parse(store), checkPending)
                                             ELSE isFavorite
    /\ checkPending' = NoCheck
    /\ UNCHANGED <<store, tab, detailOpen, routeId, movie, detailLoading,
                   fetchPending, toggles, favMounted, favorites, favLoading,
                   loadPending, pair, taps, ended>>
    /\ UNCHANGED searchVars

\* history of the tap: starts a pair, is the second of two toggles that follow
\* one another, or is a second tap while the first toggle is pending
PairAtTap ==
    IF toggles = <<>>
    THEN IF pair.stage = "d1" /\ pair.m = movie
         THEN [pair EXCEPT !.stage = "t2", !.f2 = isFavorite]
         ELSE [stage |-> "t1", m |-> movie, L |-> ListOf(store),
               f1 |-> isFavorite, f2 |-> FALSE]
    ELSE IF /\ Len(toggles) = 1
            /\ toggles[1].live
            /\ pair.stage = "t1"
            /\ pair.m = movie
            /\ checkPending = NoCheck
            /\ isFavorite = pair.f1
         THEN [pair EXCEPT !.stage = "o2"]
         ELSE NoPair

PairAtWrite ==
    CASE pair.stage = "t1" -> [pair EXCEPT !.stage = "d1"]
      [] pair.stage = "t2" -> [pair EXCEPT !.stage = "d2"]
      [] pair.stage = "o2" -> [pair EXCEPT !.stage = "o2w"]
      [] pair.stage = "o2w" -> [pair EXCEPT !.stage = "o2d"]
      [] OTHER -> pair

\* onPress={toggleFavorite}, up to `await AsyncStorage.getItem`; the heart is
\* rendered once loading is false and movie is set
TapHeart ==
    /\ detailOpen
    /\ ~detailLoading
    /\ movie # NullMovie
    /\ taps < MaxTaps
    /\ taps' = taps + 1
    /\ toggles' = Append(toggles, Toggle(movie, isFavorite))
    /\ pair' = PairAtTap
    /\ UNCHANGED <<store, tab, detailOpen, routeId, movie, detailLoading,
                   isFavorite, fetchPending, checkPending, favMounted, favorites,
                   favLoading, loadPending, ended>>
    /\ UNCHANGED searchVars

\* toggleFavorite from the result of getItem to `await AsyncStorage.setItem`
ToggleRead(i) ==
    LET c == toggles[i] IN
    /\ c.pc = "read"
    /\ IF ParseThrows(store)
       THEN /\ toggles' = RemoveAt(toggles, i)
            /\ pair' = NoPair
            /\ ended' = "threw"
       ELSE LET stored == IF store.kind = "none" THEN <<>> ELSE Parse(store)
                next == ApplyToggle(stored, c.fav, c.m)
            IN /\ toggles' = [toggles EXCEPT ![i] =
                                [c EXCEPT !.pc = "write", !.favorites = next]]
               /\ UNCHANGED <<pair, ended>>
    /\ UNCHANGED <<store, tab, detailOpen, routeId, movie, detailLoading,
                   isFavorite, fetchPending, checkPending, favMounted, favorites,
                   favLoading, loadPending, taps>>
    /\ UNCHANGED searchVars

\* variant of ToggleWrite: the flag is set before the write is known to have
\* succeeded and is not set back when setItem rejects
ToggleWrite_FlagFirst(i, ok) ==
    LET c == toggles[i] IN
    /\ c.pc = "write"
    /\ toggles' = RemoveAt(toggles, i)
    /\ isFavorite' = IF c.live THEN ~c.fav ELSE isFavorite
    /\ IF ok
       THEN /\ store' = Stringify(c.favorites)
            /\ pair' = PairAtWrite
            /\ ended' = "wrote"
       ELSE /\ pair' = NoPair
            /\ ended' = "failed"
            /\ UNCHANGED store
    /\ UNCHANGED <<tab, detailOpen, routeId, movie, detailLoading, fetchPending,
                   checkPending, favMounted, favorites, favLoading, loadPending, taps>>
    /\ UNCHANGED searchVars

\* setItem stores the list and toggleFavorite goes on to
\* setIsFavorite(!isFavorite), or setItem rejects and the catch block logs
ToggleWrite(i, ok) ==
    LET c == toggles[i] IN
    /\ c.pc = "write"
    /\ toggles' = RemoveAt(toggles, i)
    /\ IF ok
       THEN /\ store' = Stringify(c.favorites)
            /\ isFavorite' = IF c.live THEN ~c.fav ELSE isFavorite
            /\ pair' = PairAtWrite
            /\ ended' = "wrote"
       ELSE /\ pair' = NoPair
            /\ ended' = "failed"
            /\ UNCHANGED <<store, isFavorite>>
    /\ UNCHANGED <<tab, detailOpen, routeId, movie, detailLoading, fetchPending,
                   checkPending, favMounted, favorites, favLoading, loadPending, taps>>
    /\ UNCHANGED searchVars

Unmounted(s) == [i \in 1..Len(s) |-> [s[i] EXCEPT !.live = FALSE]]

\* back: the MovieScreen is unmounted; its pending storage calls still run,
\* their setState calls no longer have an effect
CloseDetail ==
    /\ detailOpen
    /\ detailOpen' = FALSE
    /\ routeId' = NullMovie
    /\ movie' = NullMovie
    /\ detailLoading' = TRUE
    /\ isFavorite' = FALSE
    /\ fetchPending' = FALSE
    /\ checkPending' = NoCheck
    /\ toggles' = Unmounted(toggles)
    /\ pair' = IF pair.stage \in {"o2", "o2w", "o2d"} THEN NoPair ELSE pair
    /\ UNCHANGED <<store, tab, favMounted, favorites, favLoading, loadPending, taps,
                   ended>>
    /\ UNCHANGED searchVars

\* the lists of catalog ids without repeats
DistinctLists ==
    { l \in UNION { [1..k -> Ids] : k \in 0..Cardinality(Ids) } :
        \A i, j \in 1..Len(l) : i # j => l[i] # l[j] }

\* what an earlier run of the app, or nothing, or a damaged file left
InitialStores ==
    {NothingStored, Malformed} \cup { Stringify(l) : l \in DistinctLists }

InitFav ==
    /\ store \in InitialStores
    /\ tab = "search"
    /\ detailOpen = FALSE
    /\ routeId = NullMovie
    /\ movie = NullMovie
    /\ detailLoading = TRUE
    /\ isFavorite = FALSE
    /\ fetchPending = FALSE
    /\ checkPending = NoCheck
    /\ toggles = <<>>
    /\ favMounted = FALSE
    /\ favorites = <<>>
    /\ favLoading = TRUE
    /\ loadPending = FALSE
    /\ pair = NoPair
    /\ taps = 0
    /\ ended = "none"

(* --------------------------- specifications --------------------------- *)
\* the search screen alone, nothing stored
InitOfSearch == InitSearch /\ InitFav /\ store = NothingStored

NextSearch ==
    \/ \E text \in Queries : SetQuery(text)
    \/ HandleSearch
    \/ LoadMore
    \/ \E i \in 1..Len(inflight), n \in ResultCounts, t \in Totals : DeliverOk(i, n, t)
    \/ \E i \in 1..Len(inflight), withError \in BOOLEAN : DeliverNone(i, withError)
    \/ \E i \in 1..Len(inflight) : DeliverFail(i)

SpecSearch == InitOfSearch /\ [][NextSearch]_vars

InitOfFav == InitSearch /\ InitFav

\* the favorites store under the detail screen, opened from the search tab
NextFav ==
    \/ \E id \in Ids \cup {Undefined} : OpenDetail(id)
    \/ FetchMovieOk
    \/ FetchMovieNotFound
    \/ FetchMovieFail
    \/ CheckIfFavoriteDone
    \/ TapHeart
    \/ \E i \in 1..Len(toggles) : ToggleRead(i)
    \/ \E i \in 1..Len(toggles), ok \in BOOLEAN : ToggleWrite(i, ok)
    \/ CloseDetail

SpecFav == InitOfFav /\ [][NextFav]_vars

\* the same with the favorites tab
NextTabs ==
    \/ OpenFavoritesTab
    \/ OpenSearchTab
    \/ LoadFavoritesDone
    \/ NextFav

SpecTabs == InitOfFav /\ [][NextTabs]_vars

(* ------------------------ claims: search session ---------------------- *)

\* C3: the user submits "a" and then "b" while the fetch for "a" is still in
\* flight (two requests sent, both by submits); once both responses have been
\* delivered, the displayed list holds only results of the latest submit.
C3_OnlyLatestSubmitShown ==
    ( /\ issued = 2
      /\ page = 1
      /\ inflight = <<>>
      /\ Trim(session) # <<>>
      /\ last.op = "ok" )
    => \A k \in 1..Len(movies) : movies[k].q = session

\* C5: in a session started by a non-blank submit, loadMore changes neither
\* the page number nor the requests while loading or when hasMore is false;
\* otherwise it adds one to the page number and sends exactly one request,
\* for the submitted query at the new page number.
C5_LoadMoreContract ==
    [][ (LoadMore /\ Trim(session) # <<>>) =>
          IF loading \/ ~hasMore
          THEN page' = page /\ inflight' = inflight /\ issued' = issued
          ELSE /\ page' = page + 1
               /\ issued' = issued + 1
               /\ Len(inflight') = Len(inflight) + 1
               /\ SubSeq(inflight', 1, Len(inflight)) = inflight
               /\ inflight'[Len(inflight')].q = session
               /\ inflight'[Len(inflight')].p = page + 1 ]_vars

\* C6: a submit of an empty or whitespace-only text, in any state, leaves the
\* result list empty and sends no request.
C6_BlankSubmitSendsNothing ==
    [][ (HandleSearch /\ Trim(query) = <<>>) =>
          /\ movies' = <<>>
          /\ inflight' = inflight
          /\ issued' = issued ]_vars

\* C6 witness: a whitespace-only text was submitted while an earlier request
\* was still in flight; the list is empty and nothing was added to the requests.
C6_Witness ==
    /\ last.op = "submit"
    /\ query = <<" ">>
    /\ movies = <<>>
    /\ issued = 1
    /\ Len(inflight) = 1

\* C7: right after a 'True' response for page p with total count t, hasMore
\* is (t > p * 10).
C7_HasMoreAfterSuccess ==
    last.op = "ok" => hasMore = (last.t > last.p * PageSize)

\* C7 witness: 5 results with total 23 for page 2, after 5 results for page 1:
\* ten results shown and hasMore still true.
C7_Witness ==
    /\ last = Event("ok", 2, 5, 23)
    /\ Len(movies) = 10
    /\ hasMore

\* C8: in a session started by a non-blank submit, the list is never shorter after a successful
\* loadMore than it was after the previous successful loadMore.
C8_LengthNeverDecreases ==
    [][ \A i \in 1..Len(inflight) : \A n \in ResultCounts, t \in Totals :
          (DeliverOk(i, n, t) /\ IsSessionLoadMore(inflight[i])
                              /\ Trim(session) # <<>>)
              => Len(movies') >= sessLen ]_vars

(* ------------------------ claims: favorites store --------------------- *)

\* C1: the persisted list never holds two entries with the same imdbID.
C1_NoDuplicateIds ==
    LET L == ListOf(store) IN
    \A j, k \in 1..Len(L) : (j # k /\ L[j] \in Ids) => L[j] # L[k]

\* C2: two toggles on a movie m that ran one after the other and both wrote
\* leave the persisted list equal to the list L from before the first. It is
\* stated for the toggles whose isFavorite agrees with the list they read:
\* the first sees whether m is in L, the second sees the opposite.
C2_TwoTogglesRestoreList ==
    (pair.stage = "d2" /\ pair.f1 = Some(pair.L, pair.m) /\ pair.f2 = ~pair.f1)
        => ListOf(store) = pair.L

\* C2, as amended: two such toggles leave the entries of all other movies as
\* they were, in the same order; the list is L again when the first toggle
\* appended m to a list without m and the second removed it, or when the
\* first removed m and the second appended it, which restores L when m was
\* its one last entry and moves m to the end otherwise.
C2_TwoTogglesKeepOthers ==
    pair.stage = "d2" =>
        LET R == ListOf(store)
            L == pair.L
            m == pair.m
        IN /\ Without(R, m) = Without(L, m)
           /\ (~pair.f1 /\ pair.f2 /\ ~Some(L, m)) => R = L
           /\ (pair.f1 /\ ~pair.f2) => R = Append(Without(L, m), m)

\* C2 witness: m was the last of two entries, was removed and appended
\* again, and the list is as before.
C2_Witness ==
    /\ pair.stage = "d2"
    /\ pair.f1
    /\ Len(pair.L) = 2
    /\ pair.L[2] = pair.m
    /\ ListOf(store) = pair.L

\* C4: the heart is tapped a second time while the first toggle is pending,
\* on a screen whose checkIfFavorite has completed; once both have written,
\* the list and the flag are those of the two toggles run one after the other.
C4_DoubleTapNotLost ==
    pair.stage = "o2d" =>
        /\ ListOf(store) =
              ApplyToggle(ApplyToggle(pair.L, pair.f1, pair.m), ~pair.f1, pair.m)
        /\ isFavorite = pair.f1

\* C9: the favorites screen displays the persisted list when its load
\* completes, and again each time it comes back into view, by its tab or by
\* leaving the detail screen that lay over it, with no toggle pending. It is
\* stated for persisted lists of catalog movies without repeats.
C9_FavoritesShowsStore ==
    [][ /\ LoadFavoritesDone => favorites' = ListOf(store')
        /\ ( /\ (OpenFavoritesTab \/ (CloseDetail /\ tab = "favorites"))
             /\ favMounted
             /\ ~loadPending
             /\ toggles = <<>>
             /\ ListOf(store) \in DistinctLists )
           => favorites' = ListOf(store') ]_vars

\* C10: with nothing stored or an unreadable value stored, loadFavorites
\* shows the empty list, checkIfFavorite leaves isFavorite false, and a
\* toggle on a movie that is not a favorite goes on to write the list [m].
C10_ReadFailsSoft ==
    [][ (store.kind \in {"none", "bad"}) =>
          /\ LoadFavoritesDone => favorites' = <<>>
          /\ CheckIfFavoriteDone => ~isFavorite'
          /\ \A i \in 1..Len(toggles) :
                (ToggleRead(i) /\ ~toggles[i].fav) =>
                    /\ Len(toggles') = Len(toggles)
                    /\ toggles'[i].pc = "write"
                    /\ toggles'[i].favorites = <<toggles[i].m>> ]_vars


\* C11: when the write of a toggle fails, the call ends there: the stored list
\* and the favorite flag are those of the moment before (the flag is only set
\* after a successful write, so there is nothing to roll back), and the call
\* is over without an error leaving the handler. For a single toggle tapped on
\* a settled screen the stored list is still the list L of the tap.
C11_WriteFailureKeepsFlagAndList ==
    [][\A i \in 1..Len(toggles) :
          ToggleWrite(i, FALSE) =>
              /\ isFavorite' = isFavorite
              /\ store' = store
              /\ toggles' = RemoveAt(toggles, i)
              /\ ended' = "failed"
              /\ (pair.stage = "t1" => ListOf(store') = pair.L)]_vars

\* C11 witness: a write failed on an open detail screen whose movie is stored
\* and shown as a favorite
C11_Witness ==
    /\ ended = "failed"
    /\ detailOpen
    /\ movie = "tt1"
    /\ isFavorite
    /\ toggles = <<>>
    /\ store = Stringify(<<"tt1">>)

\* C12: a toggle decides between removing and appending by whether the
\* movie's id is in the list it has just read: the list it goes on to write
\* is that list without the id if the id was in it, and that list with the
\* id appended if it was not.
C12_DecidesByMembership ==
    [][\A i \in 1..Len(toggles) :
          (ToggleRead(i) /\ ~ParseThrows(store)) =>
              LET stored == ListOf(store)
                  id == toggles[i].m
              IN toggles'[i].favorites =
                     IF Some(stored, id) THEN Without(stored, id)
                     ELSE Append(stored, id)]_vars

(* ------------------------- claims: search (2) -------------------------- *)
\* C13: when a search request ends in a network error, handling that outcome
\* sets the error message to the fetch-failed text and leaves the result list
\* and hasMore exactly as they were when the outcome arrived.
C13_NetworkErrorKeepsListAndHasMore ==
    [][last'.op = "fail" =>
          /\ error' = FetchFailed
          /\ movies' = movies
          /\ hasMore' = hasMore]_vars

\* C13 witness: a loadMore for page 2 has just failed; the first page is still
\* listed and more pages are still offered
C13_Witness ==
    /\ last = Event("fail", 2, 0, 0)
    /\ error = FetchFailed
    /\ Len(movies) = 5
    /\ hasMore
    /\ inflight = <<>>

\* C14: when a search response reports no results, hasMore becomes false, and
\* the result list is cleared if the request was for page 1 and left as it was
\* if the request was for a later page.
C14_NoResultsEndsPaging ==
    [][last'.op = "none" =>
          /\ hasMore' = FALSE
          /\ movies' = IF last'.p = 1 THEN <<>> ELSE movies]_vars

\* C14 witness: page 2 came back without results; the first page is still
\* listed and no more pages are offered
C14_Witness ==
    /\ last = Event("none", 2, 0, 0)
    /\ Len(movies) = 5
    /\ ~hasMore
    /\ inflight = <<>>

\* C15: a response without results and a failed fetch lead to different
\* states: right after a page-1 response without results the error is null
\* and, with a text in the search box, the empty-results message is shown;
\* right after a failed fetch an error message is set and the empty-results
\* message is not shown.
C15_ZeroResultsIsNotAnError ==
    /\ (last.op = "none" /\ last.p = 1 /\ query # <<>>) =>
           (error = NoError /\ EmptyMessageShown)
    /\ last.op = "fail" => (error # NoError /\ ~EmptyMessageShown)

\* C16: the loading flag is true in every state in which a search request is
\* in flight (hence loadMore, which is guarded by the flag, never sends a
\* request while another one is in flight).
C16_LoadingWhileInFlight == inflight # <<>> => loading

\* C17: in every state with no request in flight, the result list is the
\* concatenation, in order and without gaps or repeats, of pages 1..k for some
\* k <= page. Stated for a session whose submit came before every request and
\* whose text is still in the search box.
C17_ListIsPagesInOrder ==
    (/\ inflight = <<>>
     /\ sessStart = 0
     /\ Trim(session) # <<>>
     /\ query = session) =>
        LET n == Len(movies) IN
        /\ n > 0 => (/\ movies[1].p = 1
                     /\ movies[1].i = 1
                     /\ movies[n].p <= page)
        /\ \A j \in 1..(n - 1) :
              \/ movies[j + 1].p = movies[j].p /\ movies[j + 1].i = movies[j].i + 1
              \/ movies[j + 1].p = movies[j].p + 1 /\ movies[j + 1].i = 1

\* C18: every request sent by loadMore is for the query text of the most
\* recent submit; editing the text without submitting does not change the
\* query of later pages. Stated for the requests loadMore sends after a
\* submit of a non-blank text.
C18_LoadMoreUsesSubmittedQuery ==
    Trim(session) # <<>> =>
        \A k \in 1..Len(inflight) :
            IsSessionLoadMore(inflight[k]) => inflight[k].q = session

(* ------------------------ claims: favorites (2) ------------------------ *)
\* C19: a detail lookup that ends in 'not found' or in a network error never
\* makes the toggle available: in every reachable state, every entry of the
\* stored favorites list carries the imdbID of a movie whose detail was
\* fetched, that is, an id of the catalog.
C19_StoredEntriesHaveFetchedIds ==
    \A k \in 1..Len(ListOf(store)) : ListOf(store)[k] \in Ids

====
